---------------------------- MODULE Spec2Model ----------------------------
(* Buddy allocator of buddy-malloc.c as a state machine.                    *)
(*                                                                          *)
(* The arena is modelled word by word (8-byte words, the LP64 layout of     *)
(* list_t: prev at offset 0, next at offset 8; the block header is the word *)
(* at offset 0).  Free lists are the intrusive circular lists of the code:  *)
(* their links live in the heap words of the free blocks and in the static  *)
(* array "buckets".  Pointers are plain integers.                           *)
(*                                                                          *)
(* MAX_ALLOC_LOG2 is 31 in the source; the arena is scaled down so that the *)
(* tree can be enumerated, and size_t is scaled with it (SIZE_BITS) so that *)
(* "request + HEADER_SIZE" can still wrap around.                           *)
EXTENDS Integers, Sequences, FiniteSets, TLC

\* ------------------------------------------------------------------------
\* Program constants
\* ------------------------------------------------------------------------
HEADER_SIZE == 8

MIN_ALLOC_LOG2 == 4

MIN_ALLOC == 2 ^ MIN_ALLOC_LOG2

MAX_ALLOC_LOG2 == 7

MAX_ALLOC == 2 ^ MAX_ALLOC_LOG2

BUCKET_COUNT == MAX_ALLOC_LOG2 - MIN_ALLOC_LOG2 + 1

\* sizeof(list_t): two pointers.
SIZEOF_LIST == 16

\* Width of size_t, scaled with the arena.
SIZE_BITS == MAX_ALLOC_LOG2 + 2

SIZE_MOD == 2 ^ SIZE_BITS

NULL == 0

\* Address of the static array "buckets"; the heap lies above the statics.
BucketsAddr == 16

BucketPtr(b) == BucketsAddr + SIZEOF_LIST * b

StaticEnd == BucketsAddr + SIZEOF_LIST * BUCKET_COUNT

\* Number of bytes of the array node_is_split.
SplitBytes == (2 ^ (BUCKET_COUNT - 1)) \div 8

\* ------------------------------------------------------------------------
\* Environment: what the host and the caller may do
\* ------------------------------------------------------------------------
\* Values sbrk(0) may report: one 8-byte aligned, one not.
BreakValues == {StaticEnd, StaticEnd + 4}

\* Requests the caller passes to buddy_malloc: the smallest and the largest
\* request of the size classes, the first oversize ones, and the largest
\* value of size_t.
Requests ==
  {0, 8} \cup {2 ^ k - HEADER_SIZE : k \in (MIN_ALLOC_LOG2 + 1)..MAX_ALLOC_LOG2}
         \cup {MAX_ALLOC - HEADER_SIZE + 1, MAX_ALLOC, SIZE_MOD - 1}

\* Number of allocations the caller obtains in a run (failed calls are not
\* counted).
MaxAllocs == 5

\* pc             "start" before buddy_init, "ready" after it, "fault" when
\*                the process died in it
\* base_ptr, max_ptr, buckets, node_is_split   the globals of the source
\* heap           the arena, one entry per 8-byte word from base_ptr on
\* live           the caller's outstanding allocations: the address returned
\*                and the request it was made with
\* nalloc         number of allocations handed out so far
\* last           the call that ran last: its operation, argument and result,
\*                whether brk refused in it, the arena words it wrote (wr) and
\*                those it accessed outside [base_ptr, max_ptr) (oob)
VARIABLES pc, base_ptr, max_ptr, buckets, node_is_split, heap, live, nalloc,
          last

vars == <<pc, base_ptr, max_ptr, buckets, node_is_split, heap, live, nalloc,
          last>>

Words == 0..(MAX_ALLOC \div 8 - 1)

\* ------------------------------------------------------------------------
\* Memory: a machine state m carries the allocator's globals, the heap and
\* the record of the accesses of the running call (wr: arena words written,
\* oob: arena words accessed while outside [base_ptr, max_ptr)).
\* ------------------------------------------------------------------------
IsStatic(a) == a >= BucketsAddr /\ a < StaticEnd

WordOf(m, a) == (a - m.base) \div 8

Committed(m, a) == a >= m.base /\ a + 8 <= m.max

Touch(m, a) ==
  IF IsStatic(a) \/ Committed(m, a) THEN m
  ELSE [m EXCEPT !.oob = @ \cup {a}]

Load(m, a) ==
  IF IsStatic(a)
    THEN LET b == (a - BucketsAddr) \div SIZEOF_LIST
         IN IF a = BucketPtr(b) THEN m.buckets[b].prev ELSE m.buckets[b].next
    ELSE m.heap[WordOf(m, a)]

Store(m, a, v) ==
  IF IsStatic(a)
    THEN LET b == (a - BucketsAddr) \div SIZEOF_LIST
         IN IF a = BucketPtr(b)
              THEN [m EXCEPT !.buckets[b].prev = v]
              ELSE [m EXCEPT !.buckets[b].next = v]
    ELSE [Touch(m, a) EXCEPT !.heap[WordOf(m, a)] = v, !.wr = @ \cup {a}]

PrevOf(p) == p

NextOf(p) == p + 8

\* ------------------------------------------------------------------------
\* update_max_ptr: brk_ok is the host's answer should brk be called.
\* ------------------------------------------------------------------------
\* Mutant: the test "new_value > max_ptr" is dropped, brk is always called.
update_max_ptr_always(m, new_value, brk_ok) ==
  IF ~brk_ok
    THEN [m |-> [m EXCEPT !.refused = TRUE], ret |-> 0]
    ELSE [m |-> [m EXCEPT !.max = new_value], ret |-> 1]

update_max_ptr(m, new_value, brk_ok) ==
  IF new_value > m.max
    THEN IF ~brk_ok
           THEN [m |-> [m EXCEPT !.refused = TRUE], ret |-> 0]
           ELSE [m |-> [m EXCEPT !.max = new_value], ret |-> 1]
    ELSE [m |-> m, ret |-> 1]

\* ------------------------------------------------------------------------
\* Circular doubly-linked lists
\* ------------------------------------------------------------------------
list_init(m, list) ==
  Store(Store(m, PrevOf(list), list), NextOf(list), list)

list_push(m, list, entry) ==
  LET m0   == Touch(m, PrevOf(list))
      prev == Load(m0, PrevOf(list))
      m1   == Store(m0, PrevOf(entry), prev)
      m2   == Store(m1, NextOf(entry), list)
      m3   == Store(m2, NextOf(prev), entry)
  IN Store(m3, PrevOf(list), entry)

list_remove(m, entry) ==
  LET m0   == Touch(Touch(m, PrevOf(entry)), NextOf(entry))
      prev == Load(m0, PrevOf(entry))
      next == Load(m0, NextOf(entry))
      m1   == Store(m0, NextOf(prev), next)
  IN Store(m1, PrevOf(next), prev)

\* Mutant: the entry at the front (list->next) is taken.
list_pop_front(m, list) ==
  LET m0    == Touch(m, NextOf(list))
      front == Load(m0, NextOf(list))
  IN IF front = list
       THEN [m |-> m0, ret |-> NULL]
       ELSE [m |-> list_remove(m0, front), ret |-> front]

list_pop(m, list) ==
  LET m0   == Touch(m, PrevOf(list))
      back == Load(m0, PrevOf(list))
  IN IF back = list
       THEN [m |-> m0, ret |-> NULL]
       ELSE [m |-> list_remove(m0, back), ret |-> back]

\* ------------------------------------------------------------------------
\* Node arithmetic and the split bits
\* ------------------------------------------------------------------------
ptr_for_node(m, index, bucket) ==
  m.base + (index - 2 ^ bucket + 1) * 2 ^ (MAX_ALLOC_LOG2 - bucket)

node_for_ptr(m, ptr, bucket) ==
  ((ptr - m.base) \div 2 ^ (MAX_ALLOC_LOG2 - bucket)) + 2 ^ bucket - 1

BitOf(byte, k) == (byte \div 2 ^ k) % 2

\* byte ^ (1 << k)
XorBit(byte, k) == IF BitOf(byte, k) = 1 THEN byte - 2 ^ k ELSE byte + 2 ^ k

\* The value returned is that of the compound assignment: the whole byte.
flip_parent_is_split(m, index) ==
  LET idx == (index - 1) \div 2
      new == XorBit(m.bits[idx \div 8], idx % 8)
  IN [m |-> [m EXCEPT !.bits[idx \div 8] = new], ret |-> new]

\* Mutant: the loop also runs when size = request.
RECURSIVE bfr_loop_le(_, _, _)
bfr_loop_le(bucket, size, request) ==
  IF size <= request
    THEN bfr_loop_le(bucket - 1, (size * 2) % SIZE_MOD, request)
    ELSE bucket

RECURSIVE bfr_loop(_, _, _)
bfr_loop(bucket, size, request) ==
  IF size < request
    THEN bfr_loop(bucket - 1, (size * 2) % SIZE_MOD, request)
    ELSE bucket

bucket_for_request(request) == bfr_loop(BUCKET_COUNT - 1, MIN_ALLOC, request)

\* ------------------------------------------------------------------------
\* buddy_malloc
\* ------------------------------------------------------------------------
\* Mutant: the left child, the one handed on, is pushed instead of the right.
RECURSIVE split_loop_left(_, _, _, _)
split_loop_left(m, i, bucket, original_bucket) ==
  IF bucket < original_bucket
    THEN LET i1 == i * 2 + 1
             b1 == bucket + 1
             m1 == flip_parent_is_split(m, i1).m
             m2 == list_push(m1, BucketPtr(b1), ptr_for_node(m1, i1, b1))
         IN split_loop_left(m2, i1, b1, original_bucket)
    ELSE m

RECURSIVE split_loop(_, _, _, _)
split_loop(m, i, bucket, original_bucket) ==
  IF bucket < original_bucket
    THEN LET i1 == i * 2 + 1
             b1 == bucket + 1
             m1 == flip_parent_is_split(m, i1).m
             m2 == list_push(m1, BucketPtr(b1), ptr_for_node(m1, i1 + 1, b1))
         IN split_loop(m2, i1, b1, original_bucket)
    ELSE m

\* Mutant: the popped block is not put back.
malloc_refused_drop(m, bucket, ptr) == [m |-> m, ret |-> NULL]

\* The commit was refused: the block goes back on its free list.
malloc_refused(m, bucket, ptr) ==
  [m |-> list_push(m, BucketPtr(bucket), ptr), ret |-> NULL]

\* Mutant: the header receives the class size instead of the request.
malloc_take_class(m, ptr, bucket, original_bucket, request) ==
  LET i  == node_for_ptr(m, ptr, bucket)
      m1 == IF i # 0 THEN flip_parent_is_split(m, i).m ELSE m
      m2 == split_loop(m1, i, bucket, original_bucket)
  IN [m |-> Store(m2, ptr, 2 ^ (MAX_ALLOC_LOG2 - original_bucket)),
      ret |-> ptr + HEADER_SIZE]

\* The block at ptr, popped from "bucket", is marked USED, split down to
\* original_bucket and handed out behind its header.
malloc_take(m, ptr, bucket, original_bucket, request) ==
  LET i  == node_for_ptr(m, ptr, bucket)
      m1 == IF i # 0 THEN flip_parent_is_split(m, i).m ELSE m
      m2 == split_loop(m1, i, bucket, original_bucket)
  IN [m |-> Store(m2, ptr, request), ret |-> ptr + HEADER_SIZE]

\* Mutant: only the room of one list entry is asked for.
bytes_needed_entry(bucket, original_bucket) == SIZEOF_LIST

bytes_needed(bucket, original_bucket) ==
  LET size == 2 ^ (MAX_ALLOC_LOG2 - bucket)
  IN IF bucket < original_bucket THEN size \div 2 + SIZEOF_LIST ELSE size

RECURSIVE malloc_loop(_, _, _, _, _)
malloc_loop(m, bucket, original_bucket, request, brk_ok) ==
  IF bucket + 1 = 0
    THEN [m |-> m, ret |-> NULL]
    ELSE
      LET pop == list_pop(m, BucketPtr(bucket))
          ptr == pop.ret
      IN IF ptr = NULL
           THEN malloc_loop(pop.m, bucket - 1, original_bucket, request, brk_ok)
           ELSE
             LET upd == update_max_ptr(
                          pop.m, ptr + bytes_needed(bucket, original_bucket),
                          brk_ok)
             IN IF upd.ret = 0
                  THEN malloc_refused(upd.m, bucket, ptr)
                  ELSE malloc_take(upd.m, ptr, bucket, original_bucket, request)

buddy_malloc(m, request, brk_ok) ==
  IF (request + HEADER_SIZE) % SIZE_MOD > MAX_ALLOC
    THEN [m |-> m, ret |-> NULL]
    ELSE LET bucket == bucket_for_request((request + HEADER_SIZE) % SIZE_MOD)
         IN malloc_loop(m, bucket, bucket, request, brk_ok)

\* ------------------------------------------------------------------------
\* buddy_free
\* ------------------------------------------------------------------------
\* ((index - 1) ^ 1) + 1
Sibling(index) == IF (index - 1) % 2 = 0 THEN index + 1 ELSE index - 1

RECURSIVE free_loop(_, _, _)
free_loop(m, i, bucket) ==
  IF i = 0
    THEN [m |-> m, i |-> i, bucket |-> bucket]
    ELSE LET f == flip_parent_is_split(m, i)
         IN IF f.ret # 0
              THEN [m |-> f.m, i |-> i, bucket |-> bucket]
              ELSE free_loop(
                     list_remove(f.m, ptr_for_node(f.m, Sibling(i), bucket)),
                     (i - 1) \div 2, bucket - 1)

buddy_free(m, user_ptr) ==
  LET ptr    == user_ptr - HEADER_SIZE
      m0     == Touch(m, ptr)
      bucket == bucket_for_request((Load(m0, ptr) + HEADER_SIZE) % SIZE_MOD)
      i      == node_for_ptr(m0, ptr, bucket)
      fl     == free_loop(m0, i, bucket)
  IN list_push(fl.m, BucketPtr(fl.bucket), ptr_for_node(fl.m, fl.i, fl.bucket))

\* ------------------------------------------------------------------------
\* buddy_init
\* ------------------------------------------------------------------------
RECURSIVE init_lists(_, _)
init_lists(m, i) ==
  IF i < BUCKET_COUNT
    THEN init_lists(list_init(m, BucketPtr(i)), i + 1)
    ELSE m

\* Up to the point where the root entry is written.
buddy_init_head(m, brk0, brk_ok) ==
  LET m0 == [m EXCEPT !.base = brk0, !.max = brk0]
      m1 == update_max_ptr(m0, m0.base + SIZEOF_LIST, brk_ok).m
  IN init_lists(m1, 0)

buddy_init(m, brk0, brk_ok) ==
  LET m1 == buddy_init_head(m, brk0, brk_ok)
  IN list_push(m1, BucketPtr(0), m1.base)

\* ------------------------------------------------------------------------
\* The state machine
\* ------------------------------------------------------------------------
\* The machine state a call starts from.
Machine ==
  [base |-> base_ptr, max |-> max_ptr, buckets |-> buckets,
   bits |-> node_is_split, heap |-> heap, wr |-> {}, oob |-> {},
   refused |-> FALSE]

Commit(m) ==
  /\ base_ptr' = m.base
  /\ max_ptr' = m.max
  /\ buckets' = m.buckets
  /\ node_is_split' = m.bits
  /\ heap' = m.heap

NoCall == [op |-> "none", arg |-> 0, ret |-> 0, refused |-> FALSE,
           wr |-> {}, oob |-> {}, fresh |-> FALSE, reuse |-> NULL]

\* Static storage is zero-initialized; the heap holds nothing yet.
Init ==
  /\ pc = "start"
  /\ base_ptr = NULL
  /\ max_ptr = NULL
  /\ buckets = [b \in 0..(BUCKET_COUNT - 1) |-> [prev |-> NULL, next |-> NULL]]
  /\ node_is_split = [k \in 0..(SplitBytes - 1) |-> 0]
  /\ heap = [w \in Words |-> 0]
  /\ live = {}
  /\ nalloc = 0
  /\ last = NoCall

\* buddy_init(): the host reports its break and grants the first commit.
InitOk ==
  /\ pc = "start"
  /\ \E brk0 \in BreakValues :
       \E m \in {buddy_init(Machine, brk0, TRUE)} :
          /\ Commit(m)
          /\ last' = [NoCall EXCEPT !.op = "init", !.wr = m.wr, !.oob = m.oob]
  /\ pc' = "ready"
  /\ UNCHANGED <<live, nalloc>>

\* buddy_init() when brk fails: the result of update_max_ptr is ignored and
\* the root entry is written into memory that was never committed.  The
\* write either faults (the process ends) or lands in memory that happens
\* to be mapped.
InitRefused ==
  /\ pc = "start"
  /\ \E brk0 \in BreakValues, faults \in BOOLEAN :
       \E mh \in {buddy_init_head(Machine, brk0, FALSE)},
          m  \in {buddy_init(Machine, brk0, FALSE)} :
          IF faults
            THEN /\ Commit(mh)
                 /\ pc' = "fault"
                 /\ last' = [NoCall EXCEPT !.op = "init", !.refused = TRUE,
                                           !.oob = {mh.base}]
            ELSE /\ Commit(m)
                 /\ pc' = "ready"
                 /\ last' = [NoCall EXCEPT !.op = "init", !.refused = TRUE,
                                           !.wr = m.wr, !.oob = m.oob]
  /\ UNCHANGED <<live, nalloc>>

\* p = buddy_malloc(request); brk_ok is the host's answer to brk.
\* last.reuse is the address released just before, when this call repeats
\* the request of an allocation that was made and released right before it.
Malloc ==
  /\ pc = "ready"
  /\ nalloc < MaxAllocs
  /\ \E request \in Requests, brk_ok \in BOOLEAN :
       \E r \in {buddy_malloc(Machine, request, brk_ok)} :
          /\ Commit(r.m)
          /\ nalloc' = IF r.ret = NULL THEN nalloc ELSE nalloc + 1
          /\ live' = IF r.ret = NULL THEN live
                     ELSE live \cup {[ptr |-> r.ret, request |-> request]}
          /\ last' = [op |-> "malloc", arg |-> request, ret |-> r.ret,
                      refused |-> r.m.refused, wr |-> r.m.wr, oob |-> r.m.oob,
                      fresh |-> FALSE,
                      reuse |-> IF last.op = "free" /\ last.fresh
                                   /\ last.arg = request
                                  THEN last.ret ELSE NULL]
  /\ UNCHANGED pc

\* buddy_free(p) for an outstanding allocation p.  last.fresh tells that p
\* was returned by the call just before.
Free ==
  /\ pc = "ready"
  /\ \E a \in live :
       \E m \in {buddy_free(Machine, a.ptr)} :
          /\ Commit(m)
          /\ live' = live \ {a}
          /\ last' = [op |-> "free", arg |-> a.request, ret |-> a.ptr,
                      refused |-> FALSE, wr |-> m.wr, oob |-> m.oob,
                      fresh |-> (last.op = "malloc" /\ last.ret = a.ptr),
                      reuse |-> NULL]
  /\ UNCHANGED <<pc, nalloc>>

Next == InitOk \/ InitRefused \/ Malloc \/ Free

Spec == Init /\ [][Next]_vars

\* ------------------------------------------------------------------------
\* The exhaustion scenario: the host grants every commit; the caller fills
\* the arena with blocks of the minimum class, releases all of them (in any
\* order) and then asks for the whole arena.
\* ------------------------------------------------------------------------
\* One call r = buddy_malloc(request) in which the host answers brk_ok,
\* recorded as in Malloc.
MallocCall(request, brk_ok) ==
  /\ \E r \in {buddy_malloc(Machine, request, brk_ok)} :
          /\ Commit(r.m)
          /\ nalloc' = IF r.ret = NULL THEN nalloc ELSE nalloc + 1
          /\ live' = IF r.ret = NULL THEN live
                     ELSE live \cup {[ptr |-> r.ret, request |-> request]}
          /\ last' = [op |-> "malloc", arg |-> request, ret |-> r.ret,
                      refused |-> r.m.refused, wr |-> r.m.wr, oob |-> r.m.oob,
                      fresh |-> FALSE,
                      reuse |-> IF last.op = "free" /\ last.fresh
                                   /\ last.arg = request
                                  THEN last.ret ELSE NULL]
  /\ UNCHANGED pc

\* Requests of the minimum class.
MinRequests == {0, MIN_ALLOC - HEADER_SIZE}

\* buddy_malloc of the minimum class, repeated with no release in between,
\* until a call returns NULL.
FillMin ==
  /\ pc = "ready"
  /\ nalloc = Cardinality(live)
  /\ last.op = "init" \/ (last.op = "malloc" /\ last.ret # NULL)
  /\ \E request \in MinRequests : MallocCall(request, TRUE)

\* buddy_free of the blocks obtained by FillMin, once the arena is exhausted.
DrainAll ==
  /\ pc = "ready"
  /\ last.op = "free" \/ (last.op = "malloc" /\ last.ret = NULL)
  /\ Free

\* buddy_malloc(MAX_ALLOC - HEADER_SIZE) once everything has been released.
WholeArena ==
  /\ pc = "ready"
  /\ last.op = "free"
  /\ live = {}
  /\ MallocCall(MAX_ALLOC - HEADER_SIZE, TRUE)

ExhaustNext == InitOk \/ FillMin \/ DrainAll \/ WholeArena

SpecExhaust == Init /\ [][ExhaustNext]_vars

\* ------------------------------------------------------------------------
\* Size classes: the caller asks for every size that can be served, in a
\* few calls, with releases in between; the host grants every commit.
\* ------------------------------------------------------------------------
\* Every request with request + HEADER_SIZE <= MAX_ALLOC.
ServableRequests == 0..(MAX_ALLOC - HEADER_SIZE)

\* Number of allocations the caller obtains in such a run.
ClassAllocs == 2

ClassMalloc ==
  /\ pc = "ready"
  /\ nalloc < ClassAllocs
  /\ \E request \in ServableRequests : MallocCall(request, TRUE)

ClassNext == InitOk \/ ClassMalloc \/ Free

SpecClass == Init /\ [][ClassNext]_vars

\* ------------------------------------------------------------------------
\* Round trips: among the calls of Spec the caller also runs
\* p = buddy_malloc(request); buddy_free(p) back to back.
\* ------------------------------------------------------------------------
RoundTrip ==
  /\ pc = "ready"
  /\ nalloc < MaxAllocs
  /\ \E request \in Requests, brk_ok \in BOOLEAN :
       \E r \in {buddy_malloc(Machine, request, brk_ok)} :
          /\ r.ret # NULL
          /\ \E m \in {buddy_free(r.m, r.ret)} :
               /\ Commit(m)
               /\ last' = [op |-> "roundtrip", arg |-> request, ret |-> r.ret,
                           refused |-> FALSE, wr |-> m.wr, oob |-> m.oob,
                           fresh |-> FALSE, reuse |-> NULL]
  /\ nalloc' = nalloc + 1
  /\ UNCHANGED <<pc, live>>

RoundTripNext == InitOk \/ InitRefused \/ Malloc \/ Free \/ RoundTrip

SpecRoundTrip == Init /\ [][RoundTripNext]_vars

\* ------------------------------------------------------------------------
\* Observations used by the properties
\* ------------------------------------------------------------------------
ClassSize(b) == 2 ^ (MAX_ALLOC_LOG2 - b)

\* The bucket the code derives for a request (in malloc and again in free).
BucketOfRequest(request) ==
  bucket_for_request((request + HEADER_SIZE) % SIZE_MOD)

RECURSIVE walk(_, _, _)
walk(p, list, fuel) ==
  IF p = list \/ fuel = 0
    THEN <<>>
    ELSE <<p>> \o walk(Load(Machine, NextOf(p)), list, fuel - 1)

\* The entries of bucket b's free list, front to back, read off the links.
FreeList(b) ==
  walk(buckets[b].next, BucketPtr(b), MAX_ALLOC \div MIN_ALLOC + 1)

AllBuckets == 0..(BUCKET_COUNT - 1)

FreeBlocks ==
  UNION {{[start |-> FreeList(b)[k], size |-> ClassSize(b),
           id |-> <<"free", b, k>>] : k \in 1..Len(FreeList(b))}
         : b \in AllBuckets}

LiveBlocks ==
  {[start |-> a.ptr - HEADER_SIZE,
    size |-> ClassSize(BucketOfRequest(a.request)),
    id |-> <<"live", a.ptr, a.request>>] : a \in live}

Overlap(x, y) == x.start < y.start + y.size /\ y.start < x.start + x.size

\* The free lists and split bits are those buddy_init leaves.
AsInitialized ==
  /\ \A k \in 0..(SplitBytes - 1) : node_is_split[k] = 0
  /\ FreeList(0) = <<base_ptr>>
  /\ \A b \in 1..(BUCKET_COUNT - 1) : FreeList(b) = <<>>

\* Nodes of the linearized tree: those of bucket b are 2^b - 1 .. 2^(b+1) - 2.
NodesOf(b) == (2 ^ b - 1)..(2 ^ (b + 1) - 2)

AllNodes == 0..(2 ^ BUCKET_COUNT - 2)

InternalNodes == 0..(2 ^ (BUCKET_COUNT - 1) - 2)

RECURSIVE BucketOfNode(_)
BucketOfNode(i) == IF i = 0 THEN 0 ELSE 1 + BucketOfNode((i - 1) \div 2)

\* Node l is node i or lies below it in the tree.
RECURSIVE Under(_, _)
Under(l, i) == l = i \/ (l > i /\ Under((l - 1) \div 2, i))

NodeBlock(i) ==
  [start |-> ptr_for_node(Machine, i, BucketOfNode(i)),
   size |-> ClassSize(BucketOfNode(i))]

\* UNUSED: no live allocation lies in the node's range.
NodeUnused(i) == \A x \in LiveBlocks : ~Overlap(NodeBlock(i), x)

UnusedNodes ==
  UNION {{i \in AllNodes : \A x \in lb : ~Overlap(NodeBlock(i), x)}
         : lb \in {LiveBlocks}}

\* The stored bit of internal node i.
SplitBit(i) == BitOf(node_is_split[i \div 8], i % 8)

\* The addresses on bucket b's free list.
FreeSet(b) == LET f == FreeList(b) IN {f[k] : k \in 1..Len(f)}

\* Node i's address is an entry of the free list of its bucket.
OnList(i) == NodeBlock(i).start \in FreeSet(BucketOfNode(i))

ListedNodes ==
  UNION {LET f == FreeSet(b) IN {i \in NodesOf(b) : NodeBlock(i).start \in f}
         : b \in AllBuckets}

\* The minimum-size nodes that lie in a listed node.
ListedLeaves(on) ==
  {l \in NodesOf(BUCKET_COUNT - 1) : \E j \in on : Under(l, j)}

\* Every list entry is the address of a node of the list's bucket.
EntriesAreNodes ==
  \A b \in AllBuckets : \A p \in FreeSet(b) :
     \E i \in NodesOf(b) : NodeBlock(i).start = p

\* Number of bytes on the free lists.
RECURSIVE SumSizes(_)
SumSizes(blocks) ==
  IF blocks = {} THEN 0
  ELSE LET x == CHOOSE x \in blocks : TRUE
       IN x.size + SumSizes(blocks \ {x})

FreeBytes == SumSizes(FreeBlocks)

\* The least power of two that is at least n.
LeastPow2(n) ==
  CHOOSE p \in {2 ^ k : k \in 0..MAX_ALLOC_LOG2} :
    /\ p >= n
    /\ \A q \in {2 ^ k : k \in 0..MAX_ALLOC_LOG2} : q >= n => p <= q

Max(a, b) == IF a >= b THEN a ELSE b

\* The node a release of node i ends at when it merges upward exactly while
\* the buddy at the current level is on its free list.
RECURSIVE MergeTop(_)
MergeTop(i) ==
  IF i = 0 THEN 0
  ELSE IF OnList(Sibling(i)) THEN MergeTop((i - 1) \div 2) ELSE i

\* The sequence seq without the entries that are in gone.
RECURSIVE Without(_, _)
Without(seq, gone) ==
  IF seq = <<>> THEN <<>>
  ELSE IF Head(seq) \in gone THEN Without(Tail(seq), gone)
       ELSE <<Head(seq)>> \o Without(Tail(seq), gone)

\* ------------------------------------------------------------------------
\* Properties
\* ------------------------------------------------------------------------

\* C1: after buddy_init and any calls of buddy_malloc and buddy_free, the
\* blocks of the live allocations and the blocks on the free lists lie in
\* the arena, are pairwise disjoint and cover [base_ptr, base_ptr+MAX_ALLOC).
ArenaPartitioned ==
  pc = "ready" =>
    LET blocks == FreeBlocks \cup LiveBlocks
    IN /\ \A x \in blocks :
            x.start >= base_ptr /\ x.start + x.size <= base_ptr + MAX_ALLOC
       /\ \A x, y \in blocks : x # y => ~Overlap(x, y)
       /\ \A g \in 0..(MAX_ALLOC \div MIN_ALLOC - 1) :
            \E x \in blocks :
              /\ x.start <= base_ptr + g * MIN_ALLOC
              /\ base_ptr + g * MIN_ALLOC < x.start + x.size

\* C1 witness: a release has run while two blocks stay live and a free list
\* holds two entries.
ArenaPartitionedWitness ==
  /\ pc = "ready"
  /\ last.op = "free"
  /\ Cardinality(live) >= 2
  /\ \E b \in AllBuckets : Len(FreeList(b)) >= 2

\* C2: once every allocation that was handed out has been released, all
\* split bits are zero, bucket 0 holds the single entry base_ptr and every
\* other bucket is empty, as right after buddy_init.
AllReleasedRestoresInit ==
  (pc = "ready" /\ nalloc > 0 /\ live = {}) => AsInitialized

\* C3: buddy_malloc(r) with r + 8 > MAX_ALLOC returns NULL and changes no
\* free list, no split bit and not max_ptr, for every r of size_t.
OversizeRejected ==
  [][(last'.op = "malloc" /\ last'.arg + HEADER_SIZE > MAX_ALLOC)
       => /\ last'.ret = NULL
          /\ UNCHANGED <<buckets, node_is_split, heap, max_ptr>>]_vars

\* C4: when brk refuses the extension a buddy_malloc call asks for, the call
\* returns NULL and the free lists (entries and order), the split bits and
\* max_ptr are what they were before the call.
CommitRefusalRollsBack ==
  [][(last'.op = "malloc" /\ last'.refused)
       => /\ last'.ret = NULL
          /\ UNCHANGED <<buckets, node_is_split, heap, max_ptr, live>>]_vars

\* C4 witness: a refused call that had popped a block reached by skipping an
\* empty bucket, after earlier allocations.
CommitRefusalWitness ==
  /\ last.op = "malloc"
  /\ last.refused
  /\ last.ret = NULL
  /\ nalloc > 0
  /\ FreeList(BucketOfRequest(last.arg)) = <<>>

\* C5: buddy_malloc(r) returns NULL exactly when (a) r + 8 > MAX_ALLOC, or
\* (b) the free lists of the target bucket and of all larger classes are
\* empty, or (c) brk refused the commit; in case (b) nothing changes.
NullExactlyWhen ==
  [][last'.op = "malloc" =>
       LET r     == last'.arg
           over  == r + HEADER_SIZE > MAX_ALLOC
           empty == /\ ~over
                    /\ \A b \in 0..BucketOfRequest(r) : FreeList(b) = <<>>
       IN /\ (last'.ret = NULL) <=> (over \/ empty \/ last'.refused)
          /\ empty => UNCHANGED <<buckets, node_is_split, heap, max_ptr>>]_vars

\* C6: every arena word a call reads or writes lies inside
\* [base_ptr, max_ptr) at the moment of the access.
AccessesCommitted == last.oob = {}

\* C7: p = buddy_malloc(n); buddy_free(p); q = buddy_malloc(n) with no call
\* in between gives q = p (whatever the host answers).
LifoReuse ==
  (last.op = "malloc" /\ last.reuse # NULL) => last.ret = last.reuse

\* C7 witness: such a triple has run while another allocation was live.
LifoReuseWitness ==
  /\ last.op = "malloc"
  /\ last.reuse # NULL
  /\ last.ret = last.reuse
  /\ Cardinality(live) >= 2

\* C8: the word before the address of every live allocation holds the
\* request it was made with, and a call writes no word of a live block
\* except the header of the block it hands out.
HeaderKept ==
  pc = "ready" =>
    \A a \in live :
      /\ Load(Machine, a.ptr - HEADER_SIZE) = a.request
      /\ \A w \in last.wr :
           (/\ a.ptr - HEADER_SIZE <= w
            /\ w < a.ptr - HEADER_SIZE + ClassSize(BucketOfRequest(a.request)))
           => (last.op = "malloc" /\ last.ret = a.ptr
               /\ w = a.ptr - HEADER_SIZE)

\* C8 witness: a block with a request below its class size stays live across
\* the release of another block that merged with its buddy (the entry the
\* release pushed is in a bucket of a larger class than the released block).
HeaderKeptWitness ==
  /\ pc = "ready"
  /\ last.op = "free"
  /\ \E b \in 0..(BucketOfRequest(last.arg) - 1) :
       /\ FreeList(b) # <<>>
       /\ FreeList(b)[Len(FreeList(b))] \in last.wr
  /\ \E a \in live :
       /\ a.request + HEADER_SIZE < ClassSize(BucketOfRequest(a.request))
       /\ Load(Machine, a.ptr - HEADER_SIZE) = a.request

\* C9: every address buddy_malloc returns is 8-byte aligned, whatever break
\* the host reported to buddy_init.
ReturnedAligned ==
  (last.op = "malloc" /\ last.ret # NULL) => last.ret % 8 = 0

\* C10: max_ptr never decreases, in no call, failed or not.
HwmMonotone == [][max_ptr' >= max_ptr]_vars

\* C10 witness: max_ptr has advanced past the root entry and a release and a
\* failed allocation have run since.
HwmMonotoneWitness ==
  /\ max_ptr > base_ptr + SIZEOF_LIST
  /\ last.op = "malloc"
  /\ last.ret = NULL
  /\ nalloc > Cardinality(live)

\* C11: with a host that grants every commit, allocations of the minimum
\* class repeated from buddy_init on with no release succeed a bounded number
\* of times (at most one per minimum block of the arena) before one returns
\* NULL; and once all of them have been released,
\* buddy_malloc(MAX_ALLOC - 8) succeeds.
ExhaustThenWhole ==
  /\ nalloc <= MAX_ALLOC \div MIN_ALLOC + 1
  /\ (last.op = "malloc" /\ last.arg = MAX_ALLOC - HEADER_SIZE)
       => last.ret # NULL

\* C12: between calls, the stored split bit of every internal node is 1
\* exactly when one of its two children, and not the other, is UNUSED.
SplitBitsAreXor ==
  pc = "ready" =>
    \A i \in InternalNodes :
      (SplitBit(i) = 1) <=> (NodeUnused(2 * i + 1) # NodeUnused(2 * i + 2))

ClassRounded ==
  [][(/\ last'.op = "malloc"
      /\ last'.ret # NULL
      /\ last'.arg + HEADER_SIZE <= MAX_ALLOC)
       => LET S == LeastPow2(Max(MIN_ALLOC, last'.arg + HEADER_SIZE))
              B == last'.ret - HEADER_SIZE
          IN /\ last'.arg + HEADER_SIZE <= S
             /\ S = ClassSize(BucketOfRequest(last'.arg))
             /\ (B - base_ptr) % S = 0
             /\ \A x \in FreeBlocks' :
                  ~Overlap(x, [start |-> B, size |-> S])
             /\ FreeBytes - FreeBytes' = S]_vars

\* C14 witness: a request one byte above a class boundary was served from a
\* list after a release, and buddy_malloc(0) was served before.
ClassRoundedWitness ==
  /\ last.op = "malloc"
  /\ last.ret # NULL
  /\ last.arg = 2 * MIN_ALLOC - HEADER_SIZE + 1
  /\ nalloc = ClassAllocs
  /\ \E a \in live : a.request = 0 /\ a.ptr # last.ret

MergeWhileBuddyFree ==
  [][last'.op = "free" =>
       \E i0 \in {node_for_ptr(Machine, last'.ret - HEADER_SIZE,
                               BucketOfRequest(last'.arg))} :
       \E top \in {MergeTop(i0)} :
       \E path \in {{j \in AllNodes : Under(i0, j) /\ Under(j, top) /\ j # top}} :
       \E gone \in {{NodeBlock(Sibling(j)).start : j \in path}} :
         /\ \A b \in AllBuckets :
              FreeList(b)' =
                IF b = BucketOfNode(top)
                  THEN Append(Without(FreeList(b), gone), NodeBlock(top).start)
                  ELSE Without(FreeList(b), gone)
         /\ top # 0 => SplitBit((top - 1) \div 2)' = 1
         /\ \A j \in path : SplitBit((j - 1) \div 2)' = 0
         /\ (/\ live' = {}
             /\ nalloc = 2
             /\ last.op = "free"
             /\ last.arg = MIN_ALLOC - HEADER_SIZE
             /\ last'.arg = MIN_ALLOC - HEADER_SIZE)
              => AsInitialized']_vars

\* C17: between calls no two buddies (the two children of one parent) are
\* both on free lists, and no listed node lies below another listed node.
MaximallyCoalesced ==
  pc = "ready" =>
    \E on \in {ListedNodes} :
      /\ \A i \in on : i # 0 => Sibling(i) \notin on
      /\ \A i, j \in on : i # j => ~Under(i, j)

\* C18: when the host does not refuse, buddy_malloc(r) with r + 8 <= MAX_ALLOC
\* succeeds whenever some node of the target bucket has no live allocation in
\* its range.
SucceedsWhenRoom ==
  [][(/\ last'.op = "malloc"
      /\ ~last'.refused
      /\ last'.arg + HEADER_SIZE <= MAX_ALLOC
      /\ \E i \in NodesOf(BucketOfRequest(last'.arg)) : NodeUnused(i))
       => last'.ret # NULL]_vars

\* C19: when buddy_malloc returns a block, the whole block is committed and
\* inside the arena: with B the returned address - 8 and S the class size,
\* base_ptr <= B and B + S <= max_ptr <= base_ptr + MAX_ALLOC.
BlockCommitted ==
  (last.op = "malloc" /\ last.ret # NULL) =>
    LET B == last.ret - HEADER_SIZE
        S == ClassSize(BucketOfRequest(last.arg))
    IN /\ base_ptr <= B
       /\ B + S <= max_ptr
       /\ max_ptr <= base_ptr + MAX_ALLOC

\* C19 witness: the block was split off a larger block that is not the root
\* and of which only the first half and the list entry of the second half
\* were committed; max_ptr ends past the block and before the arena's end.
BlockCommittedWitness ==
  /\ last.op = "malloc"
  /\ last.ret # NULL
  /\ nalloc >= 2
  /\ LET B == last.ret - HEADER_SIZE
         S == ClassSize(BucketOfRequest(last.arg))
     IN /\ B # base_ptr
        /\ max_ptr > B + S
        /\ max_ptr < base_ptr + MAX_ALLOC
        /\ (max_ptr - SIZEOF_LIST) \in last.wr
        /\ \E b \in 1..(BUCKET_COUNT - 2) :
             /\ (B - base_ptr) % ClassSize(b) = 0
             /\ max_ptr = B + ClassSize(b) \div 2 + SIZEOF_LIST

\* C20: in every reachable state, a successful p = buddy_malloc(n) followed
\* at once by buddy_free(p) leaves every free list with the entries and the
\* order it had before the allocation and every split bit with its earlier
\* value.
RoundTripRestores ==
  [][last'.op = "roundtrip" =>
       /\ \A b \in AllBuckets : FreeList(b)' = FreeList(b)
       /\ node_is_split' = node_is_split]_vars

TypeOK ==
  /\ pc \in {"start", "ready", "fault"}
  /\ \A w \in Words : heap[w] \in Int

=============================================================================
